---- MODULE Spec2Model ----
(***************************************************************************)
(* Model of the per-user collection accessor of telegram_anki_bot          *)
(* (src/anki_api.py, class AnkiCollection).                                *)
(*                                                                         *)
(* The accessor is a thin layer over the external anki library.  The       *)
(* state of the model is what the accessor can observe and change: the     *)
(* directories and collection files on disk, the number of handles open    *)
(* on each file, the accessor objects constructed so far, and a            *)
(* record of the last call made (its outcome, its result, and the library  *)
(* calls it issued, in order).  Every accessor method is one action.       *)
(*                                                                         *)
(* The library is the environment.  Its operations are modelled by their   *)
(* interface as the accessor uses it: a collection is a set of decks,      *)
(* note types, notes and cards; ids are assigned by the library and are    *)
(* unique per table; a library call either succeeds or raises.             *)
(***************************************************************************)
EXTENDS Integers, Sequences, FiniteSets, TLC

VARIABLES dirs, files, handles, accessor, lastCall

vars == <<dirs, files, handles, accessor, lastCall>>

(***************************************************************************)
(* Bounds of the model.                                                    *)
(***************************************************************************)
\* decks created through the accessor, over all collections
MaxDecks == 1
\* notes added through the accessor, over all collections
MaxNotes == 1
\* open handles that get_collection handed out, over all collections
MaxHandles == 1

\* telegram user ids the accessor is constructed for
Users == {1, 12}
\* deck names handed to create_deck
DeckNames == {"X"}
\* (front, back) texts handed to add_card
FieldPairs == {<<"F", "B">>, <<"B", "F">>}
\* search queries handed to find_cards: all cards, a malformed query
Queries == {"", "("}
\* credentials handed to sync_collection; the first pair is the valid one
Credentials == {<<"user", "secret">>, <<"user", "wrong">>}
ValidCredentials == <<"user", "secret">>

None == [none |-> TRUE]
NoFile == [nofile |-> TRUE]

Max(S) == CHOOSE x \in S : \A y \in S : y <= x
Min(S) == CHOOSE x \in S : \A y \in S : x <= y

\* the elements of a finite set of integers in ascending order
RECURSIVE Sorted(_)
Sorted(S) == IF S = {} THEN <<>> ELSE <<Min(S)>> \o Sorted(S \ {Min(S)})

(***************************************************************************)
(* Path arithmetic of __init__.                                            *)
(***************************************************************************)
BASE_USERS_PATH == "users"

Digit == <<"0", "1", "2", "3", "4", "5", "6", "7", "8", "9">>

\* str(user_id): the decimal digits of a non-negative integer
RECURSIVE str(_)
str(n) == IF n < 10 THEN <<Digit[n + 1]>>
          ELSE str(n \div 10) \o <<Digit[(n % 10) + 1]>>

\* variant: the user id left out of the directory
user_coll_dir_shared(u) == <<BASE_USERS_PATH>>

\* Path(settings.BASE_USERS_PATH) / str(self.user_id)
user_coll_dir(u) == <<BASE_USERS_PATH, str(u)>>

\* self.user_coll_dir / 'coll.anki2'
user_coll_path(u) == user_coll_dir(u) \o <<"coll.anki2">>

AllPaths == {user_coll_path(u) : u \in Users}

\* the proper ancestors of a directory path
Parents(d) == {SubSeq(d, 1, k) : k \in 1..(Len(d) - 1)}

\* Path.mkdir(parents, exist_ok) on the set ds of existing directories
mkdir(ds, d, parents, exist_ok) ==
    IF d \in ds
      THEN [dirs |-> ds, out |-> IF exist_ok THEN "return" ELSE "raise"]
    ELSE IF ~(Parents(d) \subseteq ds) /\ ~parents
      THEN [dirs |-> ds, out |-> "raise"]
    ELSE [dirs |-> ds \cup Parents(d) \cup {d}, out |-> "return"]

(***************************************************************************)
(* The library's collection.                                               *)
(***************************************************************************)
BasicModel == [id |-> 1, name |-> "Basic", tmpls |-> 1]
ReversedModel == [id |-> 2, name |-> "Basic (and reversed card)", tmpls |-> 2]
\* a model dict that is no note type of any collection
BadModel == [id |-> 9, name |-> "Basic", tmpls |-> 1]
ModelArgs == {BasicModel, ReversedModel, BadModel}

DefaultDeck == [id |-> 1, name |-> "Default"]

\* what the library creates when it opens a path that holds no file
FreshCollection ==
    [decks |-> {DefaultDeck},
     models |-> {BasicModel, ReversedModel},
     notes |-> {},
     cards |-> {},
     cur |-> 1]

\* a server-side collection whose "Basic" note type was removed
RemoteNoBasic ==
    [decks |-> {DefaultDeck, [id |-> 2, name |-> "Remote"]},
     models |-> {ReversedModel},
     notes |-> {[id |-> 1, mid |-> 2, fields |-> <<"F", "B">>]},
     cards |-> {[id |-> 1, nid |-> 1, did |-> 2, ord |-> 0, queue |-> "review"],
                [id |-> 2, nid |-> 1, did |-> 2, ord |-> 1, queue |-> "learning"]},
     cur |-> 2]

\* what a full download can bring: the server's copy of the collection
RemoteCollections == {FreshCollection, RemoteNoBasic}

\* Collection(path): the collection a handle on file content f works on
Loaded(f) == IF f = NoFile THEN FreshCollection ELSE f

NextId(S) == IF S = {} THEN 1 ELSE Max({x.id : x \in S}) + 1

Return(c, v, log) == [coll |-> c, out |-> "return", val |-> v, log |-> log, db |-> "open"]
Raise(c, e, log) == [coll |-> c, out |-> "raise", val |-> e, log |-> log, db |-> "open"]

(***************************************************************************)
(* The context manager: open a handle, run the body, close in finally.     *)
(* hs counts the open handles per file, p is the path, r the body's result.*)
(***************************************************************************)
\* Collection(path) and coll.close() on the number of open handles per file
Opened(hs, p) == [hs EXCEPT ![p] = @ + 1]
Closed(hs, p) == [hs EXCEPT ![p] = @ - 1]

\* variant: close only after a body that returned
collection_no_finally(hs, p, r) ==
    IF r.out = "raise"
      THEN [handles |-> Opened(hs, p), log |-> <<"Collection">> \o r.log,
            closed_on |-> "never"]
      ELSE [handles |-> Closed(Opened(hs, p), p),
            log |-> <<"Collection">> \o r.log \o <<"close">>,
            closed_on |-> r.db]

\* try: yield coll / finally: coll.close()
collection(hs, p, r) ==
    [handles |-> Closed(Opened(hs, p), p),
     log |-> <<"Collection">> \o r.log \o <<"close">>,
     closed_on |-> r.db]

\* a public method of the accessor of user u, whose body gave r
Call(u, op, args, r) ==
    LET p == accessor[u].user_coll_path
        cm == collection(handles, p, r)
    IN /\ files' = [files EXCEPT ![p] = r.coll]
       /\ handles' = cm.handles
       /\ lastCall' = [op |-> op, user |-> u, args |-> args, out |-> r.out,
                       val |-> r.val, log |-> cm.log, opened |-> {p},
                       closed_on |-> cm.closed_on]
       /\ UNCHANGED <<dirs, accessor>>

Coll(u) == Loaded(files[accessor[u].user_coll_path])

(***************************************************************************)
(* __init__                                                                *)
(***************************************************************************)
\* variant: mkdir without exist_ok
init_body_no_exist_ok(ds, u) ==
    LET m == mkdir(ds, user_coll_dir(u), TRUE, FALSE)
    IN [dirs |-> m.dirs, out |-> m.out,
        self |-> [user_id |-> u,
                  user_coll_dir |-> user_coll_dir(u),
                  user_coll_path |-> user_coll_path(u)]]

\* the directory is made if absent, the two paths are kept
init_body(ds, u) ==
    LET m == mkdir(ds, user_coll_dir(u), TRUE, TRUE)
    IN [dirs |-> m.dirs, out |-> m.out,
        self |-> [user_id |-> u,
                  user_coll_dir |-> user_coll_dir(u),
                  user_coll_path |-> user_coll_path(u)]]

init(u) ==
    LET r == init_body(dirs, u)
    IN /\ dirs' = r.dirs
       /\ accessor' = IF r.out = "return" THEN [accessor EXCEPT ![u] = r.self]
                      ELSE accessor
       /\ lastCall' = [op |-> "__init__", user |-> u, args |-> <<>>, out |-> r.out,
                       val |-> None, log |-> <<>>, opened |-> {}, closed_on |-> "never"]
       /\ UNCHANGED <<files, handles>>

(***************************************************************************)
(* get_collection: hands the caller an open handle, never closes it        *)
(***************************************************************************)
\* the handles open over all collection files
HandlesOpen == Cardinality(UNION {{<<p, i>> : i \in 1..handles[p]} : p \in AllPaths})

get_collection(u) ==
    LET p == accessor[u].user_coll_path
    IN /\ accessor[u] # None
       /\ HandlesOpen < MaxHandles
       /\ files' = [files EXCEPT ![p] = Loaded(@)]
       /\ handles' = Opened(handles, p)
       /\ lastCall' = [op |-> "get_collection", user |-> u, args |-> <<>>,
                       out |-> "return", val |-> [handle |-> p],
                       log |-> <<"Collection">>, opened |-> {p}, closed_on |-> "never"]
       /\ UNCHANGED <<dirs, accessor>>

(***************************************************************************)
(* create_deck                                                             *)
(***************************************************************************)
\* the decks of every collection file that bear a name create_deck was given
DecksCreated ==
    Cardinality(UNION {{<<p, k.id>> : k \in {d \in Loaded(files[p]).decks : d.name \in DeckNames}} :
                       p \in AllPaths})

\* coll.decks.new_deck(): a deck not yet in the collection, id 0
new_deck == [id |-> 0, name |-> "New Deck"]

\* coll.decks.add_deck(deck): stores the deck under a new id
add_deck(c, deck) ==
    LET d == [deck EXCEPT !.id = NextId(c.decks)]
    IN [coll |-> [c EXCEPT !.decks = @ \cup {d}], id |-> d.id]

\* variant: the new deck is added without being given its name
create_deck_body_unnamed(c, deck_name) ==
    LET res == add_deck(c, new_deck)
    IN Return(res.coll, res.id, <<"new_deck", "add_deck">>)

create_deck_body(c, deck_name) ==
    LET deck == [new_deck EXCEPT !.name = deck_name]
        res == add_deck(c, deck)
    IN Return(res.coll, res.id, <<"new_deck", "add_deck">>)

create_deck(u, deck_name) ==
    /\ DecksCreated < MaxDecks
    /\ accessor[u] # None
    /\ Call(u, "create_deck", <<deck_name>>, create_deck_body(Coll(u), deck_name))

(***************************************************************************)
(* get_decks                                                               *)
(***************************************************************************)
\* coll.decks.all_names_and_ids(skip_empty_default), in id order
all_names_and_ids(c, skip_empty_default) ==
    LET empty_default == ~\E k \in c.cards : k.did = 1
        ids == {d.id : d \in c.decks} \ (IF skip_empty_default /\ empty_default THEN {1} ELSE {})
        order == Sorted(ids)
    IN [i \in 1..Len(order) |-> CHOOSE d \in c.decks : d.id = order[i]]

get_decks_body(c, skip_default) ==
    LET ds == all_names_and_ids(c, skip_default)
    IN Return(c, [i \in 1..Len(ds) |-> <<ds[i].name, ds[i].id>>], <<"all_names_and_ids">>)

get_decks(u, skip_default) ==
    /\ accessor[u] # None
    /\ Call(u, "get_decks", <<>>, get_decks_body(Coll(u), skip_default))

(***************************************************************************)
(* get_default_model                                                       *)
(***************************************************************************)
\* the loop over coll.models.all_names_and_ids(): <<id>> for the id of the
\* first note type with the wanted name, <<>> (Python's None) when there is none
find_model_id(c, name) ==
    LET ids == {m.id : m \in {x \in c.models : x.name = name}}
    IN IF ids = {} THEN <<>> ELSE <<Min(ids)>>

\* Python's truth value of an optional integer: None and 0 are false
Truthy(opt) == opt # <<>> /\ opt[1] # 0

\* coll.models.get(id)
models_get(c, id) == CHOOSE m \in c.models : m.id = id

\* variant: without the assert
get_default_model_body_unasserted(c) ==
    LET model_id == find_model_id(c, "Basic")
    IN IF ~Truthy(model_id)
         THEN Return(c, None, <<"all_names_and_ids", "get">>)
         ELSE Return(c, models_get(c, model_id[1]), <<"all_names_and_ids", "get">>)

get_default_model_body(c) ==
    LET model_id == find_model_id(c, "Basic")
    IN IF ~Truthy(model_id)
         THEN Raise(c, "AssertionError", <<"all_names_and_ids">>)
         ELSE Return(c, models_get(c, model_id[1]), <<"all_names_and_ids", "get">>)

get_default_model(u) ==
    /\ accessor[u] # None
    /\ Call(u, "get_default_model", <<>>, get_default_model_body(Coll(u)))

(***************************************************************************)
(* add_card                                                                *)
(***************************************************************************)
\* the notes of every collection file that no download brought
NotesAdded ==
    Cardinality(UNION {{<<p, n.id>> : n \in Loaded(files[p]).notes \ RemoteNoBasic.notes} :
                       p \in AllPaths})

DeckIds == 1..(MaxDecks + 1)

\* coll.add_note(note, deck_id): stores the note under a new id and generates
\* one new card per template of its note type, in template order
add_note(c, note, deck_id) ==
    LET nid == NextId(c.notes)
        first == NextId(c.cards)
        tmpls == models_get(c, note.mid).tmpls
        new_cards == {[id |-> first + o, nid |-> nid, did |-> deck_id,
                       ord |-> o, queue |-> "new"] : o \in 0..(tmpls - 1)}
    IN [coll |-> [c EXCEPT !.notes = @ \cup {[note EXCEPT !.id = nid]},
                           !.cards = @ \cup new_cards],
        id |-> nid]

\* note.cards(): the cards of a note, in template order
note_cards(c, nid) ==
    LET own == {k \in c.cards : k.nid = nid}
        ords == Sorted({k.ord : k \in own})
    IN [i \in 1..Len(ords) |-> CHOOSE k \in own : k.ord = ords[i]]

\* variant: the fields in the order [back, front]
add_card_body_swapped(c, deck_id, model, front, back) ==
    IF ~\E m \in c.models : m.id = model.id
      THEN Raise(c, "NotFoundError", <<"new_note">>)
    ELSE IF ~\E d \in c.decks : d.id = deck_id
      THEN Raise(c, "NotFoundError", <<"new_note", "add_note">>)
    ELSE LET new_note == [id |-> 0, mid |-> model.id, fields |-> <<back, front>>]
             res == add_note(c, new_note, deck_id)
         IN Return(res.coll, note_cards(res.coll, res.id)[1].id,
                   <<"new_note", "add_note", "after_note_updates", "cards">>)

\* new_note raises for a model that is no note type of the collection,
\* add_note for a deck that does not exist
add_card_body(c, deck_id, model, front, back) ==
    IF ~\E m \in c.models : m.id = model.id
      THEN Raise(c, "NotFoundError", <<"new_note">>)
    ELSE IF ~\E d \in c.decks : d.id = deck_id
      THEN Raise(c, "NotFoundError", <<"new_note", "add_note">>)
    ELSE LET new_note == [id |-> 0, mid |-> model.id, fields |-> <<front, back>>]
             res == add_note(c, new_note, deck_id)
         IN Return(res.coll, note_cards(res.coll, res.id)[1].id,
                   <<"new_note", "add_note", "after_note_updates", "cards">>)

add_card(u, deck_id, model, front, back) ==
    /\ accessor[u] # None
    /\ NotesAdded < MaxNotes
    /\ Call(u, "add_card", <<deck_id, model, front, back>>,
            add_card_body(Coll(u), deck_id, model, front, back))

(***************************************************************************)
(* get_current_deck, set_deck                                              *)
(***************************************************************************)
get_current_deck_body(c) ==
    Return(c, CHOOSE d \in c.decks : d.id = c.cur, <<"current">>)

get_current_deck(u) ==
    /\ accessor[u] # None
    /\ Call(u, "get_current_deck", <<>>, get_current_deck_body(Coll(u)))

set_deck_body(c, deck_id) ==
    IF \E d \in c.decks : d.id = deck_id
      THEN Return([c EXCEPT !.cur = deck_id], None, <<"select">>)
      ELSE Raise(c, "NotFoundError", <<"select">>)

set_deck(u, deck_id) ==
    /\ accessor[u] # None
    /\ Call(u, "set_deck", <<deck_id>>, set_deck_body(Coll(u), deck_id))

(***************************************************************************)
(* get_queues_count, find_cards                                            *)
(***************************************************************************)
\* the cards the scheduler serves: those of the current deck
Queue(c) == {k \in c.cards : k.did = c.cur}

get_queues_count_body(c) ==
    LET n(q) == Cardinality({k \in Queue(c) : k.queue = q})
    IN Return(c, <<n("new"), n("review"), n("learning")>>, <<"get_queued_cards">>)

get_queues_count(u) ==
    /\ accessor[u] # None
    /\ Call(u, "get_queues_count", <<>>, get_queues_count_body(Coll(u)))

\* coll.find_cards(query): the ids of the matching cards
lib_find_cards(c, query) ==
    Sorted({k.id : k \in {x \in c.cards : query = ""}})

find_cards_body(c, query) ==
    IF query = "("
      THEN Raise(c, "SearchError", <<"find_cards">>)
      ELSE LET found == lib_find_cards(c, query)
           IN Return(c, [i \in 1..Len(found) |-> found[i]], <<"find_cards">>)

find_cards(u, query) ==
    /\ accessor[u] # None
    /\ Call(u, "find_cards", <<query>>, find_cards_body(Coll(u), query))

(***************************************************************************)
(* get_card_and_note                                                       *)
(***************************************************************************)
\* coll.sched.getCard(): the next card of the queue, None when it is empty
getCard(c) ==
    IF Queue(c) = {} THEN None
    ELSE CHOOSE k \in Queue(c) : k.id = Min({x.id : x \in Queue(c)})

\* card.note()
card_note(c, card) == CHOOSE n \in c.notes : n.id = card.nid

\* card.note() on None is an attribute error of the accessor's own code
get_card_and_note_body(c) ==
    LET card == getCard(c)
    IN IF card = None
         THEN Raise(c, "AttributeError", <<"getCard">>)
         ELSE Return(c, <<card, card_note(c, card)>>, <<"getCard", "note">>)

get_card_and_note(u) ==
    /\ accessor[u] # None
    /\ Call(u, "get_card_and_note", <<>>, get_card_and_note_body(Coll(u)))

(***************************************************************************)
(* get_next_time_buttons                                                   *)
(***************************************************************************)
CardIds == 1..(MaxNotes + 1)

\* the scheduler's interval preview for a card in a queue, per ease 1..4,
\* as a sequence of characters
IvlLabels ==
    [new |-> << <<"<", "1", "m">>, <<"<", "6", "m">>, <<" ", "1", "d">>, <<" ", "4", "d", " ">> >>,
     learning |-> << <<"<", "1", "m">>, <<"<", "1", "0", "m">>, <<"1", "d", " ">>, <<"4", "d">> >>,
     review |-> << <<"<", "1", "0", "m">>, <<" ", "2", "d">>, <<"3", "d">>, <<"1", " ", "m", "o">> >>]

\* coll.sched.nextIvlStr(card, ease) for a card of the collection
nextIvlStr(c, card_id, ease) ==
    IvlLabels[(CHOOSE k \in c.cards : k.id = card_id).queue][ease]

\* the card is one the scheduler of this collection can answer for
Schedulable(c, card_id) == \E k \in c.cards : k.id = card_id

IsSpace(ch) == ch = " "

\* str.strip(): without leading and trailing whitespace
RECURSIVE lstrip(_)
lstrip(s) == IF s # <<>> /\ IsSpace(Head(s)) THEN lstrip(Tail(s)) ELSE s
RECURSIVE rstrip(_)
rstrip(s) == IF s # <<>> /\ IsSpace(s[Len(s)]) THEN rstrip(SubSeq(s, 1, Len(s) - 1)) ELSE s
strip(s) == rstrip(lstrip(s))

\* the loop over range(lo, hi), appending one stripped preview per ease
RECURSIVE buttons(_, _, _, _)
buttons(c, card_id, ease, hi) ==
    IF ease >= hi THEN <<>>
    ELSE <<strip(nextIvlStr(c, card_id, ease))>> \o buttons(c, card_id, ease + 1, hi)

\* variant: range(1, 4)
get_next_time_buttons_body_short(c, card_id) ==
    IF ~Schedulable(c, card_id)
      THEN Raise(c, "NotFoundError", <<"nextIvlStr">>)
      ELSE Return(c, buttons(c, card_id, 1, 4),
                  <<"nextIvlStr", "nextIvlStr", "nextIvlStr">>)

get_next_time_buttons_body(c, card_id) ==
    IF ~Schedulable(c, card_id)
      THEN Raise(c, "NotFoundError", <<"nextIvlStr">>)
      ELSE Return(c, buttons(c, card_id, 1, 5),
                  <<"nextIvlStr", "nextIvlStr", "nextIvlStr", "nextIvlStr">>)

get_next_time_buttons(u, card_id) ==
    /\ accessor[u] # None
    /\ Call(u, "get_next_time_buttons", <<card_id>>,
            get_next_time_buttons_body(Coll(u), card_id))

(***************************************************************************)
(* sync_collection                                                         *)
(***************************************************************************)
\* variant: upload before download
SyncStepsUploadFirst ==
    <<"sync_login", "close_for_full_sync", "sync_collection", "full_upload", "full_download">>

\* the library calls of the body, in program order
SyncSteps ==
    <<"sync_login", "close_for_full_sync", "sync_collection", "full_download", "full_upload">>

\* the calls that are handed the auth object
TakesAuth == {"sync_collection", "full_download", "full_upload"}

\* the endpoint the server names in its answer to sync_collection
NewEndpoint == "https://sync2/"

\* what the server's answer to sync_collection can ask for
SyncRequired == {"NO_CHANGES", "FULL_UPLOAD"}

\* a library step raises: an injected fault (network, protocol, I/O), or
\* sync_login with credentials the server rejects
StepFails(i, creds, fault) ==
    \/ fault = i
    \/ SyncSteps[i] = "sync_login" /\ creds # ValidCredentials

\* what a step that succeeds does to the running call
StepEffect(name, st, remote, required) ==
    CASE name = "sync_login" ->
           [st EXCEPT !.auth = [hkey |-> "hkey", endpoint |-> "None"]]
      [] name = "close_for_full_sync" ->
           [st EXCEPT !.db = "full_sync"]
      [] name = "sync_collection" ->
           \* res = coll.sync_collection(auth); auth.endpoint = res.new_endpoint
           [st EXCEPT !.res = [required |-> required, new_endpoint |-> NewEndpoint],
                      !.auth.endpoint = NewEndpoint]
      [] name = "full_download" ->
           [st EXCEPT !.coll = remote]
      [] name = "full_upload" -> st

Called(name, st) ==
    [st EXCEPT !.log = Append(@, name),
               !.eps = IF name \in TakesAuth THEN Append(@, st.auth.endpoint) ELSE @]

\* the statements from the i-th on: the first step that raises ends the body
RECURSIVE run_sync(_, _, _, _, _, _)
run_sync(st, i, creds, fault, remote, required) ==
    IF i > Len(SyncSteps) THEN st
    ELSE IF StepFails(i, creds, fault)
      THEN [Called(SyncSteps[i], st) EXCEPT !.out = "raise", !.val = SyncSteps[i]]
    ELSE run_sync(StepEffect(SyncSteps[i], Called(SyncSteps[i], st), remote, required),
                  i + 1, creds, fault, remote, required)

\* variant: a failing step is swallowed and the next one is called
RECURSIVE run_sync_swallow(_, _, _, _, _, _)
run_sync_swallow(st, i, creds, fault, remote, required) ==
    IF i > Len(SyncSteps) THEN st
    ELSE IF StepFails(i, creds, fault)
      THEN run_sync_swallow([Called(SyncSteps[i], st) EXCEPT !.out = "raise", !.val = SyncSteps[i]],
                            i + 1, creds, fault, remote, required)
    ELSE run_sync_swallow(StepEffect(SyncSteps[i], Called(SyncSteps[i], st), remote, required),
                          i + 1, creds, fault, remote, required)

SyncStart(c) ==
    [coll |-> c, out |-> "return", val |-> None, log |-> <<>>, db |-> "open",
     auth |-> [hkey |-> "", endpoint |-> "None"], eps |-> <<>>,
     res |-> [required |-> "", new_endpoint |-> ""]]

sync_collection_body_swallow(c, creds, fault, remote, required) ==
    run_sync_swallow(SyncStart(c), 1, creds, fault, remote, required)

sync_collection_body(c, creds, fault, remote, required) ==
    run_sync(SyncStart(c), 1, creds, fault, remote, required)

\* the credentials, the step the environment fails (0: none) and the server's
\* copy of the collection; one representative per distinct course of the call
SyncInputs ==
    {in \in Credentials \X (0..Len(SyncSteps)) \X RemoteCollections \X SyncRequired :
        /\ in[1] # ValidCredentials => in[2] = 0
        /\ in[2] \in 1..4 => in[3] = FreshCollection
        /\ (in[1] # ValidCredentials \/ in[2] \in 1..3) => in[4] = "NO_CHANGES"}

sync_collection(u, creds, fault, remote, required) ==
    /\ accessor[u] # None
    /\ LET r == sync_collection_body(Coll(u), creds, fault, remote, required)
       IN Call(u, "sync_collection", <<r.eps, r.res.required>>, r)

(***************************************************************************)
(* Specification                                                           *)
(***************************************************************************)
Init ==
    /\ dirs = {}
    /\ files = [p \in AllPaths |-> NoFile]
    /\ handles = [p \in AllPaths |-> 0]
    /\ accessor = [u \in Users |-> None]
    /\ lastCall = [op |-> "none", user |-> 0, args |-> <<>>, out |-> "return",
                   val |-> None, log |-> <<>>, opened |-> {}, closed_on |-> "never"]

\* the arguments the calls are made with
Inputs ==
    [names |-> DeckNames, decks |-> DeckIds, models |-> ModelArgs,
     fields |-> FieldPairs, flags |-> BOOLEAN, queries |-> Queries,
     cards |-> CardIds, syncs |-> SyncInputs]

\* fewer arguments: one text pair, no second stock note type, one query, one
\* card, and of the syncs those that succeed, are refused at login, or fail in
\* the negotiation
FewerInputs ==
    [Inputs EXCEPT !.models = {BasicModel, BadModel},
                   !.fields = {<<"F", "B">>},
                   !.flags = {TRUE},
                   !.queries = {""},
                   !.cards = {1},
                   !.syncs = {in \in SyncInputs : in[4] = "NO_CHANGES" /\ in[2] \in {0, 3}}]

\* one call of a method of the accessor of a user in U, with arguments from I
Step(U, I) ==
    \/ \E u \in U : init(u)
    \/ \E u \in U : get_collection(u)
    \/ \E u \in U, n \in I.names : create_deck(u, n)
    \/ \E u \in U : get_default_model(u)
    \/ \E u \in U, d \in I.decks, m \in I.models, fb \in I.fields :
          add_card(u, d, m, fb[1], fb[2])
    \/ \E u \in U, s \in I.flags : get_decks(u, s)
    \/ \E u \in U : get_current_deck(u)
    \/ \E u \in U, d \in I.decks : set_deck(u, d)
    \/ \E u \in U : get_queues_count(u)
    \/ \E u \in U, q \in I.queries : find_cards(u, q)
    \/ \E u \in U : get_card_and_note(u)
    \/ \E u \in U, k \in I.cards : get_next_time_buttons(u, k)
    \/ \E u \in U, in \in I.syncs : sync_collection(u, in[1], in[2], in[3], in[4])

\* the accessor serving one user
Next == Step({12}, Inputs)

Spec == Init /\ [][Next]_vars

\* the accessor serving every user, their calls interleaved
NextUsers == Step(Users, FewerInputs)

SpecUsers == Init /\ [][NextUsers]_vars

(***************************************************************************)
(* Properties                                                              *)
(***************************************************************************)
\* the collection path of each user, written out
ExpectedPath(u) ==
    IF u = 1 THEN <<"users", <<"1">>, "coll.anki2">>
    ELSE <<"users", <<"1", "2">>, "coll.anki2">>

\* the collection a new handle of the last caller would see now
Now == Loaded(files[accessor[lastCall.user].user_coll_path])

\* the operations that open a handle for the length of the call
ScopedOperations ==
    {"create_deck", "get_default_model", "add_card", "get_decks", "get_current_deck",
     "set_deck", "get_queues_count", "find_cards", "get_card_and_note",
     "get_next_time_buttons", "sync_collection"}

\* C1: each of the eleven operations closes the handle it opened before it
\* returns, normally or by raising: its last library call is the one close, and
\* it leaves the number of open handles of every file as it found it, so no
\* sequence of these operations leaves a handle open.
C1_Step ==
    (lastCall'.op \in ScopedOperations) =>
        /\ handles' = handles
        /\ Head(lastCall'.log) = "Collection"
        /\ lastCall'.log[Len(lastCall'.log)] = "close"
        /\ Cardinality({i \in DOMAIN lastCall'.log : lastCall'.log[i] = "close"}) = 1

C1_NoHandleLeftOpen == [][C1_Step]_vars

C1_Witness ==
    /\ lastCall.op = "add_card"
    /\ lastCall.out = "raise"
    /\ \A p \in AllPaths : handles[p] = 0

\* C2: after create_deck(X) returned D, a get_decks() through a new handle on
\* the same user's collection lists the pair (X, D) exactly once, with either
\* value of skip_default.
C2_CreatedDeckListedOnce ==
    (lastCall.op = "create_deck") =>
        /\ lastCall.out = "return"
        /\ \A skip \in BOOLEAN :
              LET listed == get_decks_body(Now, skip).val
              IN Cardinality({i \in DOMAIN listed :
                     listed[i] = <<lastCall.args[1], lastCall.val>>}) = 1

C2_Witness ==
    /\ lastCall.op = "create_deck"
    /\ lastCall.out = "return"
    /\ lastCall.val = 3
    /\ Len(get_decks_body(Now, FALSE).val) = 3

\* C3: after add_card(D, model, F, B) returned C, find_cards("") through a new
\* handle includes C, the note behind card C has exactly the fields <<F, B>>,
\* and C is the first card (lowest template) of the newly added note.
C3_AddedCardFound ==
    (lastCall.op = "add_card" /\ lastCall.out = "return") =>
        LET all == find_cards_body(Now, "").val
            k == CHOOSE x \in Now.cards : x.id = lastCall.val
            n == CHOOSE x \in Now.notes : x.id = k.nid
        IN /\ \E i \in DOMAIN all : all[i] = lastCall.val
           /\ \E x \in Now.cards : x.id = lastCall.val
           /\ n.fields = <<lastCall.args[3], lastCall.args[4]>>
           /\ \A x \in Now.notes : x.id <= n.id
           /\ \A x \in Now.cards : x.nid = n.id => k.ord <= x.ord

C3_Witness ==
    /\ lastCall.op = "add_card"
    /\ lastCall.out = "return"
    /\ lastCall.args[2] = ReversedModel
    /\ lastCall.args[3] = "B"
    /\ Cardinality(Now.cards) = 4

\* C4: get_default_model raises exactly when the collection holds no note type
\* named "Basic"; otherwise it returns that note type.  Either way the
\* collection's contents are as they were when it was opened, and no handle is
\* left open.
C4_Step ==
    (lastCall'.op = "get_default_model") =>
        LET p == accessor[lastCall'.user].user_coll_path
            before == Loaded(files[p])
            hasBasic == \E m \in before.models : m.name = "Basic"
        IN /\ (lastCall'.out = "raise") <=> ~hasBasic
           /\ hasBasic => /\ lastCall'.val \in before.models
                          /\ lastCall'.val.name = "Basic"
           /\ Loaded(files'[p]) = before
           /\ handles' = handles

C4_DefaultModel == [][C4_Step]_vars

C4_Witness ==
    /\ lastCall.op = "get_default_model"
    /\ lastCall.out = "raise"
    /\ ~\E m \in Now.models : m.name = "Basic"

\* a sequence of n spaces
Spaces(n) == [i \in 1..n |-> " "]

\* C5: for a card the scheduler can answer for, get_next_time_buttons returns
\* exactly 4 strings; the i-th is the scheduler's preview for ease i, without
\* the whitespace around it, and none of them is empty.
C5_FourButtons ==
    (lastCall.op = "get_next_time_buttons" /\ Schedulable(Now, lastCall.args[1])) =>
        /\ lastCall.out = "return"
        /\ Len(lastCall.val) = 4
        /\ \A i \in 1..4 :
              LET preview == nextIvlStr(Now, lastCall.args[1], i)
                  got == lastCall.val[i]
              IN /\ got # <<>>
                 /\ got[1] # " "
                 /\ got[Len(got)] # " "
                 /\ \E a \in 0..Len(preview), b \in 0..Len(preview) :
                       preview = Spaces(a) \o got \o Spaces(b)

C5_Witness ==
    /\ lastCall.op = "get_next_time_buttons"
    /\ lastCall.out = "return"
    /\ nextIvlStr(Now, lastCall.args[1], 4) = <<" ", "4", "d", " ">>
    /\ lastCall.val[4] = <<"4", "d">>

\* C6: constructing the accessor for a user, the first time or again, returns
\* without error, resolves <base>/<user id>/coll.anki2, the same path as any
\* earlier construction, and neither opens a handle nor touches any collection
\* file.
C6_Step ==
    (lastCall'.op = "__init__") =>
        LET u == lastCall'.user
        IN /\ lastCall'.out = "return"
           /\ accessor'[u] # None
           /\ accessor'[u].user_coll_path = ExpectedPath(u)
           /\ accessor[u] # None => accessor'[u] = accessor[u]
           /\ files' = files
           /\ handles' = handles
           /\ lastCall'.opened = {}

C6_Construction == [][C6_Step]_vars

C6_Witness ==
    /\ lastCall.op = "__init__"
    /\ lastCall.out = "return"
    /\ files[accessor[lastCall.user].user_coll_path] # NoFile

\* C7: when get_card_and_note is called while the queue is empty, the
\* scheduler's "no card" result is passed on: the call returns, the accessor
\* adds no failure of its own.
C7_EmptyQueuePassedOn ==
    (lastCall.op = "get_card_and_note" /\ Queue(Now) = {}) =>
        lastCall.out = "return"

\* the library calls of sync_collection, in the order the claims give them
ExpectedSync ==
    <<"sync_login", "close_for_full_sync", "sync_collection", "full_download", "full_upload">>

\* the library calls between the opening of the handle and its close
LibraryCalls == SubSeq(lastCall.log, 2, Len(lastCall.log) - 1)

\* C8: a sync_collection that raises raised the failure of its last library
\* step unchanged; the steps before it ran once each, in order, no step ran
\* after it, and the handle was closed last.  When sync_login fails nothing else of
\* the sync ran.
C8_SyncFailure ==
    (lastCall.op = "sync_collection" /\ lastCall.out = "raise") =>
        /\ Head(lastCall.log) = "Collection"
        /\ lastCall.log[Len(lastCall.log)] = "close"
        /\ \E n \in 1..Len(ExpectedSync) :
              /\ LibraryCalls = SubSeq(ExpectedSync, 1, n)
              /\ lastCall.val = ExpectedSync[n]
        /\ lastCall.val = "sync_login" => lastCall.log = <<"Collection", "sync_login", "close">>

C8_Witness ==
    /\ lastCall.op = "sync_collection"
    /\ lastCall.out = "raise"
    /\ lastCall.val = "full_download"

\* C9: a sync_collection in which no step fails runs sync_login,
\* close_for_full_sync, sync_collection, full_download, full_upload and the
\* handle's close, each once and in this order, whatever the negotiation
\* asked for; download and upload are handed the endpoint the negotiation
\* returned; the final close meets a handle already closed for full sync.
C9_SyncOrder ==
    (lastCall.op = "sync_collection" /\ lastCall.out = "return") =>
        /\ lastCall.log = <<"Collection", "sync_login", "close_for_full_sync",
                            "sync_collection", "full_download", "full_upload", "close">>
        /\ lastCall.args[1] = <<"None", NewEndpoint, NewEndpoint>>
        /\ lastCall.closed_on = "full_sync"

C9_Witness ==
    /\ lastCall.op = "sync_collection"
    /\ lastCall.out = "return"
    /\ lastCall.args[2] = "NO_CHANGES"
    /\ Now = RemoteNoBasic

\* C10: distinct users have distinct collection paths, and a call made for a
\* user opens a handle on that user's file only and leaves every other user's
\* collection file as it was.
C10_Step ==
    LET a == lastCall'.user
    IN /\ \A u \in Users, v \in Users :
            (u # v /\ accessor'[u] # None /\ accessor'[v] # None) =>
                accessor'[u].user_coll_path # accessor'[v].user_coll_path
       /\ lastCall'.opened \subseteq {ExpectedPath(a)}
       /\ \A v \in Users \ {a} :
            accessor[v] # None =>
                files'[accessor[v].user_coll_path] = files[accessor[v].user_coll_path]

C10_Isolation == [][C10_Step]_vars

C10_Witness ==
    /\ \A u \in Users : accessor[u] # None /\ files[accessor[u].user_coll_path] # NoFile
    /\ \E u \in Users, v \in Users :
          files[accessor[u].user_coll_path] # files[accessor[v].user_coll_path]
    /\ lastCall.op = "sync_collection"
====
